---- MODULE Spec2Model ----
(***************************************************************************)
(* Fortress-api: the Todo repository, its cache-aside layer (Redis), the   *)
(* service and the endpoint handlers, as a state machine.                  *)
(*                                                                         *)
(* State: the todos table, the id sequence, the Redis keyspace, the        *)
(* process-wide redis_client, the clock, a record of the last request, and *)
(* the requests in flight when requests run concurrently.                  *)
(* One action per endpoint handler / public operation; a handler is one    *)
(* sequential chain of store and cache calls and is taken as one step.     *)
(*                                                                         *)
(* Names that the source imports from a module that does not define them   *)
(* (get_priority_order from app.core.config) are resolved to the single    *)
(* definition the repository has (app.domain.todo.schemas).                *)
(***************************************************************************)
EXTENDS Integers, Sequences, FiniteSets, TLC

VARIABLES store, nextId, cache, redis_client, now, last, tasks

vars == <<store, nextId, cache, redis_client, now, last, tasks>>

(***************************************************************************)
(* Bounds of the model.                                                    *)
(***************************************************************************)
\* number of rows ever inserted
MaxTodos == 2
\* number of times the clock advances
MaxTicks == 1
\* largest page number and page size a list request asks for
MaxPage == 3
MaxPageSize == 2

(***************************************************************************)
(* Values.                                                                 *)
(***************************************************************************)
\* SQL NULL / Python None in a string column
NullStr == "<null>"

Priorities == {"low", "medium", "high"}
UpdateFields == {"title", "description", "is_completed", "priority"}

\* a request body or dict without fields
EmptyData == [x \in {} |-> NullStr]

\* Python None as a result
PyNone == [shape |-> "none"]
PyBool(b) == [shape |-> "bool", v |-> b]
PyInt(n) == [shape |-> "int", v |-> n]
Entity(row) == [shape |-> "entity", v |-> row]
Dict(d) == [shape |-> "dict", v |-> d]

\* truthiness as `if not todo` / `if todo` / `if not deleted` evaluate it
Truthy(x) ==
    CASE x.shape = "none" -> FALSE
      [] x.shape = "bool" -> x.v
      [] x.shape = "entity" -> TRUE
      [] x.shape = "dict" -> DOMAIN x.v # {}

\* datetime.isoformat(): a timestamp becomes a string
isoformat(t) == ToString(t)

\* Todo.to_dict
to_dict(row) ==
    [id |-> row.id,
     title |-> row.title,
     description |-> row.description,
     is_completed |-> row.is_completed,
     priority |-> row.priority,
     created_at |-> isoformat(row.created_at),
     updated_at |-> isoformat(row.updated_at)]

\* attributes of a mapped Todo instance that a request can name
TodoAttrs ==
    {"id", "title", "description", "is_completed", "priority",
     "created_at", "updated_at", "to_dict", "update"}

\* attributes of a Python dict (its methods); its keys are not attributes
DictAttrs ==
    {"clear", "copy", "fromkeys", "get", "items", "keys", "pop", "popitem",
     "setdefault", "update", "values"}

\* hasattr(todo, key)
hasattr(obj, key) ==
    CASE obj.shape = "entity" -> key \in TodoAttrs
      [] obj.shape = "dict" -> key \in DictAttrs
      [] OTHER -> FALSE

(***************************************************************************)
(* Cache keys: strings as sequences of characters.                         *)
(***************************************************************************)
DigitChars == <<"0", "1", "2", "3", "4", "5", "6", "7", "8", "9">>

RECURSIVE str(_)
str(n) == IF n < 10 THEN <<DigitChars[n + 1]>>
          ELSE str(n \div 10) \o <<DigitChars[(n % 10) + 1]>>

TodoPrefix == <<"t", "o", "d", "o">>

\* the key without the id in it: every todo under one key
cache_key_NoId(id) == TodoPrefix \o <<":", "i", "d">>

\* f"todo:{id}" in get_by_id
cache_key(id) == TodoPrefix \o <<":">> \o str(id)

\* "todo:*" in clear_cache
ClearPattern == TodoPrefix \o <<":", "*">>

\* a get_key that joins prefix and key with an underscore
get_key_Underscore(key, prefix) == prefix \o <<"_">> \o key

\* get_key(key, prefix) = f"{prefix}:{key}"
get_key(key, prefix) == prefix \o <<":">> \o key

\* glob matching of KEYS pattern: "*" matches any run of characters
RECURSIVE GlobMatch(_, _)
GlobMatch(p, s) ==
    IF p = <<>> THEN s = <<>>
    ELSE IF Head(p) = "*"
         THEN GlobMatch(Tail(p), s) \/ (s # <<>> /\ GlobMatch(p, Tail(s)))
         ELSE s # <<>> /\ Head(s) = Head(p) /\ GlobMatch(Tail(p), Tail(s))

(***************************************************************************)
(* Redis helpers (app/infrastructure/redis.py).  `up` says whether the     *)
(* call reaches Redis: the client is initialised and the server answers.   *)
(* A call that does not raises inside the helper's try block.              *)
(***************************************************************************)
json_dumps(value) == [json |-> value]
json_loads(s) == s.json

\* get that answers an error with an empty value instead of None
get_EmptyOnError(c, key, prefix, up) ==
    LET k == get_key(key, prefix)
    IN IF ~up THEN Dict(EmptyData)
       ELSE IF k \in DOMAIN c THEN Dict(json_loads(c[k].value)) ELSE PyNone

\* get(key, prefix): the cached value, or None on a miss or on any error
get(c, key, prefix, up) ==
    LET k == get_key(key, prefix)
    IN IF up /\ k \in DOMAIN c THEN Dict(json_loads(c[k].value)) ELSE PyNone

\* a set that drops the write
set_Dropped(c, key, value, prefix, ttl, up, t) == c

\* set(key, value, prefix, ttl): SETEX, errors swallowed
set(c, key, value, prefix, ttl, up, t) ==
    LET k == get_key(key, prefix)
    IN IF up
       THEN [x \in DOMAIN c \cup {k} |->
                IF x = k THEN [value |-> json_dumps(value), expires_at |-> t + ttl]
                ELSE c[x]]
       ELSE c

\* clear_pattern(pattern): KEYS + DEL, errors swallowed
clear_pattern(c, pattern, up) ==
    IF up
    THEN [x \in {k \in DOMAIN c : ~GlobMatch(pattern, k)} |-> c[x]]
    ELSE c

\* expiry of keys whose time-to-live has run out
Expire(c, t) == [x \in {k \in DOMAIN c : c[k].expires_at > t} |-> c[x]]

(***************************************************************************)
(* The todos table.  store maps the ids of the existing rows to the rows.  *)
(***************************************************************************)
NullRow ==
    [id |-> 0, title |-> NullStr, description |-> NullStr,
     is_completed |-> FALSE, priority |-> NullStr,
     created_at |-> 0, updated_at |-> 0]

EmptyMap == [x \in {} |-> NullRow]

\* value of an optional field of a request body
Field(data, key, default) == IF key \in DOMAIN data THEN data[key] ELSE default

\* Todo(**todo_data) as inserted: column defaults fill what is not given,
\* the id comes from the sequence, both timestamps from server_default now()
NewRow(todo_data, id, t) ==
    [id |-> id,
     title |-> todo_data["title"],
     description |-> Field(todo_data, "description", NullStr),
     is_completed |-> Field(todo_data, "is_completed", FALSE),
     priority |-> Field(todo_data, "priority", "medium"),
     created_at |-> t,
     updated_at |-> t]

Put(st, id, row) == [x \in DOMAIN st \cup {id} |-> IF x = id THEN row ELSE st[x]]
Remove(st, id) == [x \in DOMAIN st \ {id} |-> st[x]]

\* time-to-live of an entry written by get_by_id, in seconds
CacheTTL == 300

\* the clock advances in steps of this many seconds
TickSeconds == CacheTTL

(***************************************************************************)
(* TodoRepository.  Every operation returns a record:                      *)
(*   ret     the value returned (PyNone when it raised)                    *)
(*   exc     the exception that left the operation, or "none"              *)
(*   store   the committed table after the operation                       *)
(*   cache   the Redis keyspace after the operation                        *)
(*   pending rows changed in the session but not yet flushed               *)
(*   err     some cache call of the operation failed                       *)
(* upGet, upSet, upClear say whether the operation's cache calls reach     *)
(* Redis.                                                                  *)
(***************************************************************************)
get_by_id(st, c, id, cache_enabled, upGet, upSet, t) ==
    LET key == cache_key(id)
        cached == IF cache_enabled THEN get(c, key, TodoPrefix, upGet) ELSE PyNone
        getErr == cache_enabled /\ ~upGet
    IN IF cached.shape # "none"
       THEN [ret |-> cached, cache |-> c, err |-> getErr]
       ELSE IF id \in DOMAIN st
            THEN [ret |-> Entity(st[id]),
                  cache |-> set(c, key, to_dict(st[id]), TodoPrefix, CacheTTL, upSet, t), err |-> getErr \/ ~upSet]
            ELSE [ret |-> PyNone, cache |-> c, err |-> getErr]

\* a clear_cache that removes nothing
clear_cache_Nothing(c, upClear) == c

\* clear_cache: clear_pattern("todo:*")
clear_cache(c, upClear) == clear_pattern(c, ClearPattern, upClear)

\* a store that hands out the lowest id no row holds, whatever the sequence
\* says: the id of a deleted row is given out again
create_LowestFreeId(st, c, todo_data, id, upClear, t) ==
    LET free == CHOOSE i \in 1..(Cardinality(DOMAIN st) + 1) : i \notin DOMAIN st
        row == NewRow(todo_data, free, t)
    IN [ret |-> Entity(row), exc |-> "none",
        store |-> Put(st, free, row),
        cache |-> clear_cache(c, upClear),
        pending |-> EmptyMap, err |-> ~upClear]

create(st, c, todo_data, id, upClear, t) ==
    LET row == NewRow(todo_data, id, t)
    IN [ret |-> Entity(row), exc |-> "none",
        store |-> Put(st, id, row),
        cache |-> clear_cache(c, upClear),
        pending |-> EmptyMap, err |-> ~upClear]

\* the fields of the request that update copies into update_data
UpdateData(todo, todo_data) ==
    {key \in DOMAIN todo_data : hasattr(todo, key) /\ key # "id"}

\* a loop that assigns every field of the schema, the omitted ones as None
AssignedInLoop_AllFields(row, todo_data) ==
    [row EXCEPT !.title = Field(todo_data, "title", NullStr),
                !.description = Field(todo_data, "description", NullStr),
                !.is_completed = Field(todo_data, "is_completed", FALSE),
                !.priority = Field(todo_data, "priority", NullStr)]

\* lines 173-176: the loop copies the fields into update_data and assigns
\* nothing to the mapped object
AssignedInLoop(row, todo_data) == row

\* line 180: the one attribute update assigns
ApplyUpdate(row, t) == [row EXCEPT !.updated_at = t]

\* the commit of line 179 writes what the object holds at that point; the
\* assignment of line 180 stays pending in the session
update(st, c, id, todo_data, upGet, upSet, upClear, t) ==
    LET g == get_by_id(st, c, id, TRUE, upGet, upSet, t)
        todo == g.ret
    IN IF ~Truthy(todo)
       THEN [ret |-> PyNone, exc |-> "none", store |-> st, cache |-> g.cache,
             pending |-> EmptyMap, err |-> g.err]
       ELSE IF UpdateData(todo, todo_data) # {}
            THEN IF todo.shape = "dict"
                 THEN \* attribute assignment on a dict
                      [ret |-> PyNone, exc |-> "AttributeError", store |-> st,
                       cache |-> g.cache, pending |-> EmptyMap, err |-> g.err]
                 ELSE LET committed == AssignedInLoop(todo.v, todo_data)
                          row == ApplyUpdate(committed, t)
                      IN [ret |-> Entity(row), exc |-> "none",
                          store |-> Put(st, id, committed),
                          cache |-> clear_cache(g.cache, upClear),
                          pending |-> Put(EmptyMap, id, row),
                          err |-> g.err \/ ~upClear]
            ELSE [ret |-> todo, exc |-> "none", store |-> st, cache |-> g.cache,
                  pending |-> EmptyMap, err |-> g.err]

\* a delete that clears the cache whether or not it found the row
delete_AlwaysClears(st, c, id, upGet, upSet, upClear, t) ==
    [ret |-> PyBool(id \in DOMAIN st), exc |-> "none",
     store |-> Remove(st, id),
     cache |-> clear_cache(c, upClear),
     pending |-> EmptyMap, err |-> ~upClear]

delete(st, c, id, upGet, upSet, upClear, t) ==
    LET g == get_by_id(st, c, id, TRUE, upGet, upSet, t)
        todo == g.ret
    IN IF ~Truthy(todo)
       THEN [ret |-> PyBool(FALSE), exc |-> "none", store |-> st, cache |-> g.cache,
             pending |-> EmptyMap, err |-> g.err]
       ELSE IF todo.shape = "dict"
            THEN \* session.delete of an object that is not mapped
                 [ret |-> PyNone, exc |-> "UnmappedInstanceError", store |-> st,
                  cache |-> g.cache, pending |-> EmptyMap, err |-> g.err]
            ELSE [ret |-> PyBool(TRUE), exc |-> "none",
                  store |-> Remove(st, id),
                  cache |-> clear_cache(g.cache, upClear),
                  pending |-> EmptyMap, err |-> g.err \/ ~upClear]

\* lines 228-229: the two attribute assignments of update_status
SetStatus(row, is_completed, t) ==
    [row EXCEPT !.is_completed = is_completed, !.updated_at = t]

update_status(st, c, id, is_completed, upGet, upSet, upClear, t) ==
    LET g == get_by_id(st, c, id, TRUE, upGet, upSet, t)
        todo == g.ret
    IN IF ~Truthy(todo)
       THEN [ret |-> PyNone, exc |-> "none", store |-> st, cache |-> g.cache,
             pending |-> EmptyMap, err |-> g.err]
       ELSE IF todo.shape = "dict"
            THEN \* attribute assignment on a dict
                 [ret |-> PyNone, exc |-> "AttributeError", store |-> st,
                  cache |-> g.cache, pending |-> EmptyMap, err |-> g.err]
            ELSE LET row == SetStatus(todo.v, is_completed, t)
                 IN [ret |-> Entity(row), exc |-> "none",
                     store |-> Put(st, id, row),
                     cache |-> clear_cache(g.cache, upClear),
                     pending |-> EmptyMap, err |-> g.err \/ ~upClear]

(***************************************************************************)
(* get_all: filters, ordering, total, offset/limit.                        *)
(* An optional boolean filter is <<>> (None) or <<b>>; an optional string  *)
(* filter is NullStr (None) or the string.                                 *)
(***************************************************************************)
\* `if priority:` : None and the empty string are falsy
StrTruthy(x) == x # NullStr /\ x # ""

\* the completion filter tested for truth instead of `is not None`: a filter
\* of False is no filter
Matching_TruthyCompleted(st, is_completed, priority) ==
    {id \in DOMAIN st :
        /\ ((is_completed # <<>> /\ is_completed[1]) => st[id].is_completed)
        /\ ((priority # NullStr /\ priority # "") => st[id].priority = priority)}

\* the WHERE clauses of lines 100-104
Matching(st, is_completed, priority) ==
    {id \in DOMAIN st :
        /\ (is_completed # <<>> => st[id].is_completed = is_completed[1])
        /\ (StrTruthy(priority) => st[id].priority = priority)}

\* order of the priority column: the order of its strings
Collation(p) ==
    CASE p = "high" -> 1
      [] p = "low" -> 2
      [] p = "medium" -> 3
      [] OTHER -> 0

\* the ORDER BY of lines 107-113 as a sort key and a direction
SortKey(row, sort_by) ==
    CASE sort_by = "priority" -> Collation(row.priority)
      [] sort_by = "updated_at" -> row.updated_at
      [] OTHER -> row.created_at

\* a fallback that honours the requested order
Ascending_AnyField(sort_by, order) == order = "asc"

Ascending(sort_by, order) ==
    sort_by \in {"priority", "created_at", "updated_at"} /\ order = "asc"

\* the sequences that list every id of S once
Orderings(S) ==
    {f \in [1..Cardinality(S) -> S] : \A i, j \in 1..Cardinality(S) : f[i] = f[j] => i = j}

\* the orders in which the store may return the matching rows: rows with
\* equal sort keys come in any order
ResultOrders(st, S, sort_by, order) ==
    {f \in Orderings(S) :
        \A i, j \in 1..Cardinality(S) :
            i < j =>
                IF Ascending(sort_by, order)
                THEN SortKey(st[f[i]], sort_by) <= SortKey(st[f[j]], sort_by)
                ELSE SortKey(st[f[i]], sort_by) >= SortKey(st[f[j]], sort_by)}

Min(a, b) == IF a <= b THEN a ELSE b

\* lines 115-118: SELECT todos.id FROM (<filtered query>) AS anon_1, todos
\* has no join condition between its two FROM elements, so it returns one
\* row per pair (matching row, row of todos); total is the length of that
CountRows(st, S) == Cardinality(S) * Cardinality(DOMAIN st)

\* lines 120-127: OFFSET (page - 1) * page_size LIMIT page_size
PageOf(f, page, page_size) ==
    LET offset == (page - 1) * page_size
    IN SubSeq(f, offset + 1, Min(offset + page_size, Len(f)))

\* get_all for one order f in which the store returns the matching rows
get_all(st, page, page_size, sort_by, order, is_completed, priority, f) ==
    LET S == Matching(st, is_completed, priority)
        ids == PageOf(f, page, page_size)
    IN [items |-> [i \in 1..Len(ids) |-> st[ids[i]]],
        total |-> CountRows(st, S),
        \* rows the two result sets bring to the application:
        \* total_result.all() and result.scalars().all()
        fetched |-> CountRows(st, S) + Len(ids)]

(***************************************************************************)
(* TodoService: pass-through to the repository (cache_enabled = True).     *)
(***************************************************************************)
\* the dict PRIORITY_ORDER; its keys are strings as sequences of characters
PRIORITY_ORDER ==
    <<"h", "i", "g", "h">> :> 3 @@
    <<"m", "e", "d", "i", "u", "m">> :> 2 @@
    <<"l", "o", "w">> :> 1

\* a lookup whose default is 0
get_priority_order_Zero(priority) ==
    IF priority \in DOMAIN PRIORITY_ORDER THEN PRIORITY_ORDER[priority] ELSE 0

\* PRIORITY_ORDER.get(priority, 1)
get_priority_order(priority) ==
    IF priority \in DOMAIN PRIORITY_ORDER THEN PRIORITY_ORDER[priority] ELSE 1

TodoService_get_todo(st, c, todo_id, upGet, upSet, t) ==
    LET g == get_by_id(st, c, todo_id, TRUE, upGet, upSet, t)
    IN [ret |-> g.ret, exc |-> "none", store |-> st, cache |-> g.cache,
        pending |-> EmptyMap, err |-> g.err]

TodoService_create_todo(st, c, todo_data, id, upClear, t) ==
    create(st, c, todo_data, id, upClear, t)

TodoService_update_todo(st, c, todo_id, todo_data, upGet, upSet, upClear, t) ==
    update(st, c, todo_id, todo_data, upGet, upSet, upClear, t)

TodoService_delete_todo(st, c, todo_id, upGet, upSet, upClear, t) ==
    delete(st, c, todo_id, upGet, upSet, upClear, t)

\* new_status = not todo.is_completed
Negate(b) == ~b

\* ups: the outcomes of the up to five cache calls of the two get_by_id
\* and of clear_cache
TodoService_toggle_todo_completion(st, c, todo_id, ups, t) ==
    LET g == get_by_id(st, c, todo_id, TRUE, ups[1], ups[2], t)
        todo == g.ret
    IN IF ~Truthy(todo)
       THEN [ret |-> PyNone, exc |-> "none", store |-> st, cache |-> g.cache,
             pending |-> EmptyMap, err |-> g.err]
       ELSE IF todo.shape = "dict"
            THEN \* attribute read on a dict
                 [ret |-> PyNone, exc |-> "AttributeError", store |-> st,
                  cache |-> g.cache, pending |-> EmptyMap, err |-> g.err]
            ELSE LET u == update_status(st, g.cache, todo_id,
                                        Negate(todo.v.is_completed),
                                        ups[3], ups[4], ups[5], t)
                 IN [u EXCEPT !.err = g.err \/ u.err]

(***************************************************************************)
(* Request bodies (app/domain/todo/schemas.py).  FastAPI validates the     *)
(* body before the handler and the session dependency run, and answers 422 *)
(* when it does not validate.                                              *)
(***************************************************************************)
\* a priority field without a pattern: every string passes
PriorityPattern_Any(p) == TRUE

\* pattern="^(low|medium|high)$": the strings the pattern matches
PriorityPattern(p) == p \in {"low", "medium", "high"}

\* TodoCreate: title required and not empty, priority matching the pattern
TodoCreate(body) ==
    /\ DOMAIN body \subseteq UpdateFields
    /\ "title" \in DOMAIN body /\ body["title"] \notin {"", NullStr}
    /\ ("priority" \in DOMAIN body => PriorityPattern(body["priority"]))

\* TodoUpdate: every field optional, priority matching the pattern
TodoUpdate(body) ==
    /\ DOMAIN body \subseteq UpdateFields
    /\ ("title" \in DOMAIN body => body["title"] # "")
    /\ ("priority" \in DOMAIN body => PriorityPattern(body["priority"]))

\* what a request that fails validation leaves: nothing ran
RequestValidationError(st, c) ==
    [ret |-> PyNone, exc |-> "RequestValidationError", store |-> st, cache |-> c,
     pending |-> EmptyMap, err |-> FALSE]

(***************************************************************************)
(* Endpoint handlers and the per-request session (get_db).                 *)
(***************************************************************************)
\* record_http_request_start has no return statement
record_http_request_start == PyNone

\* (datetime.now() - start_time).total_seconds() raises TypeError when
\* start_time is None
ElapsedRaises(start_time) == start_time.shape = "none"

\* status of a request whose service call gave r: an exception of the
\* service, or of the duration computation that every path of every handler
\* runs before it returns or raises HTTPException, leaves the handler
HandlerStatus(r, notFound, success) ==
    IF r.exc # "none" THEN 500
    ELSE IF ElapsedRaises(record_http_request_start) THEN 500
    ELSE IF notFound THEN 404
    ELSE success

\* get_db: commit when the handler returned, rollback when it raised
get_db(r, status) ==
    IF status < 400
    THEN [x \in DOMAIN r.store \cup DOMAIN r.pending |->
             IF x \in DOMAIN r.pending THEN r.pending[x] ELSE r.store[x]]
    ELSE r.store

(***************************************************************************)
(* Requests the environment sends.                                         *)
(***************************************************************************)
Ids == 1..MaxTodos

CreateInputs ==
    {[title |-> "a"],
     [title |-> "b", description |-> "d", is_completed |-> TRUE, priority |-> "high"]}

UpdateInputs ==
    {EmptyData,
     [title |-> "b"],
     [description |-> "d", priority |-> "high"]}

\* bodies that request validation turns down
InvalidCreateInputs == {[title |-> "a", priority |-> "urgent"]}
InvalidUpdateInputs == {[priority |-> "urgent"]}

SortFields == {"created_at", "updated_at", "priority", "title"}
Orders == {"asc", "desc"}
CompletedFilters == {<<>>, <<TRUE>>, <<FALSE>>}
PriorityFilters == {NullStr, "high"}

\* a request's cache calls reach Redis when the client exists and the server
\* answers; the server is reachable or not for the whole of a request
Up(reach) == redis_client = "client" /\ reach

\* a list request and the fields of the TodoListResponse built for it
ListRecord(page, page_size, sort_by, order, is_completed, priority, total, matching, items, fetched) ==
    [page |-> page, fetched |-> fetched, page_size |-> page_size, sort_by |-> sort_by, order |-> order,
     is_completed |-> is_completed, priority |-> priority,
     total |-> total, matching |-> matching, items |-> items,
     has_next |-> (page * page_size) < total,
     has_previous |-> page > 1]

NoList == ListRecord(0, 0, "", "", <<>>, NullStr, 0, {}, <<>>, 0)

\* the record of a request: its input, what the service returned or raised,
\* the status, the row of the id before the request, whether the request
\* before it was the create that returned this id, the time of the request,
\* and whether a cache call of the request failed
Last(op, id, data, r, status, list) ==
    [op |-> op, id |-> id, data |-> data,
     ret |-> r.ret, exc |-> r.exc, status |-> status,
     existed |-> id \in DOMAIN store,
     pre |-> IF id \in DOMAIN store THEN store[id] ELSE NullRow,
     fresh |-> last.op = "create" /\ last.id = id,
     at |-> now, err |-> r.err, list |-> list]

\* no request is in flight
NoTasks == <<>>

Init ==
    /\ tasks = NoTasks
    /\ store = EmptyMap
    /\ nextId = 1
    /\ cache = [x \in {} |-> [value |-> json_dumps(to_dict(NullRow)), expires_at |-> 0]]
    /\ redis_client = "None"
    /\ now = 0
    /\ last = [op |-> "init", id |-> 0, data |-> EmptyData,
               ret |-> PyNone, exc |-> "none", status |-> 0,
               existed |-> FALSE, pre |-> NullRow, fresh |-> FALSE,
               at |-> 0, err |-> FALSE, list |-> NoList]

\* get_redis(): creates the process-wide client
get_redis ==
    /\ redis_client = "None"
    /\ redis_client' = "client"
    /\ UNCHANGED <<tasks, store, nextId, cache, now, last>>

\* close_redis(): closes and forgets the client
close_redis ==
    /\ redis_client = "client"
    /\ redis_client' = "None"
    /\ UNCHANGED <<tasks, store, nextId, cache, now, last>>

\* time passes; Redis drops the keys whose time-to-live has run out
Tick ==
    /\ now < MaxTicks * TickSeconds
    /\ now' = now + TickSeconds
    /\ cache' = Expire(cache, now + TickSeconds)
    /\ UNCHANGED <<tasks, store, nextId, redis_client, last>>

\* GET /todos/{todo_id}
get_todo ==
    \E todo_id \in Ids, reach \in BOOLEAN :
        \E r \in {TodoService_get_todo(store, cache, todo_id, Up(reach), Up(reach), now)} :
            LET status == HandlerStatus(r, ~Truthy(r.ret), 200)
            IN /\ store' = get_db(r, status)
               /\ cache' = r.cache
               /\ last' = Last("get", todo_id, EmptyData, r, status, NoList)
               /\ UNCHANGED <<tasks, nextId, redis_client, now>>

\* POST /todos
create_todo ==
    \E todo_data \in CreateInputs \cup InvalidCreateInputs, reach \in BOOLEAN :
        IF ~TodoCreate(todo_data)
        THEN /\ last' = Last("create", 0, todo_data,
                             RequestValidationError(store, cache), 422, NoList)
             /\ UNCHANGED <<tasks, store, nextId, cache, redis_client, now>>
        ELSE /\ nextId <= MaxTodos
             /\ \E r \in {TodoService_create_todo(store, cache, todo_data, nextId,
                                                  Up(reach), now)} :
                    LET status == HandlerStatus(r, FALSE, 201)
                    IN /\ store' = get_db(r, status)
                       /\ nextId' = nextId + 1
                       /\ cache' = r.cache
                       /\ last' = Last("create", nextId, todo_data, r, status, NoList)
                       /\ UNCHANGED <<tasks, redis_client, now>>

\* PUT /todos/{todo_id}
update_todo ==
    \E todo_id \in Ids, todo_data \in UpdateInputs \cup InvalidUpdateInputs,
       reach \in BOOLEAN :
        IF ~TodoUpdate(todo_data)
        THEN /\ last' = Last("update", todo_id, todo_data,
                             RequestValidationError(store, cache), 422, NoList)
             /\ UNCHANGED <<tasks, store, nextId, cache, redis_client, now>>
        ELSE \E r \in {TodoService_update_todo(store, cache, todo_id, todo_data,
                                               Up(reach), Up(reach), Up(reach), now)} :
                LET status == HandlerStatus(r, ~Truthy(r.ret), 200)
                IN /\ store' = get_db(r, status)
                   /\ cache' = r.cache
                   /\ last' = Last("update", todo_id, todo_data, r, status, NoList)
                   /\ UNCHANGED <<tasks, nextId, redis_client, now>>

\* DELETE /todos/{todo_id}
delete_todo ==
    \E todo_id \in Ids, reach \in BOOLEAN :
        \E r \in {TodoService_delete_todo(store, cache, todo_id,
                                          Up(reach), Up(reach), Up(reach), now)} :
            LET status == HandlerStatus(r, ~Truthy(r.ret), 204)
            IN /\ store' = get_db(r, status)
               /\ cache' = r.cache
               /\ last' = Last("delete", todo_id, EmptyData, r, status, NoList)
               /\ UNCHANGED <<tasks, nextId, redis_client, now>>

\* PATCH /todos/{todo_id}/complete
toggle_todo_completion ==
    \E todo_id \in Ids, reach \in BOOLEAN :
        \E r \in {TodoService_toggle_todo_completion(
                      store, cache, todo_id, [i \in 1..5 |-> Up(reach)], now)} :
            LET status == HandlerStatus(r, ~Truthy(r.ret), 200)
            IN /\ store' = get_db(r, status)
               /\ cache' = r.cache
               /\ last' = Last("toggle", todo_id, EmptyData, r, status, NoList)
               /\ UNCHANGED <<tasks, nextId, redis_client, now>>

\* TodoRepository.update_status called with a session of its own
UpdateStatus ==
    \E id \in Ids, is_completed \in BOOLEAN, reach \in BOOLEAN :
        \E r \in {update_status(store, cache, id, is_completed,
                                Up(reach), Up(reach), Up(reach), now)} :
            /\ store' = r.store
            /\ cache' = r.cache
            /\ last' = Last("update_status", id, [is_completed |-> is_completed],
                            r, 0, NoList)
            /\ UNCHANGED <<tasks, nextId, redis_client, now>>

\* GET /todos
ListRequest(page, page_size, sort_by, order, is_completed, priority) ==
    \E f \in ResultOrders(store, Matching(store, is_completed, priority), sort_by, order) :
        \E g \in {get_all(store, page, page_size, sort_by, order,
                          is_completed, priority, f)} :
            LET r == [ret |-> PyNone, exc |-> "none", store |-> store,
                      cache |-> cache, pending |-> EmptyMap, err |-> FALSE]
                status == HandlerStatus(r, FALSE, 200)
            IN /\ last' = Last("list", 0, EmptyData, r, status,
                               ListRecord(page, page_size, sort_by, order,
                                          is_completed, priority, g.total,
                                          Matching(store, is_completed, priority),
                                          g.items, g.fetched))
               /\ UNCHANGED <<tasks, store, nextId, cache, redis_client, now>>

list_todos ==
    \E page \in 1..MaxPage, page_size \in 1..MaxPageSize,
       sort_by \in SortFields, order \in Orders,
       is_completed \in CompletedFilters, priority \in PriorityFilters :
        ListRequest(page, page_size, sort_by, order, is_completed, priority)

Next ==
    \/ get_redis
    \/ close_redis
    \/ Tick
    \/ get_todo
    \/ create_todo
    \/ update_todo
    \/ delete_todo
    \/ toggle_todo_completion
    \/ UpdateStatus

Spec == Init /\ [][Next]_vars

(***************************************************************************)
(* get_all over a fixed table: the table is one that creates at times 0    *)
(* and TickSeconds leave, and only list requests follow.                   *)
(***************************************************************************)
\* number of rows of the table
MaxRows == 2

ListInputs ==
    {[title |-> "a", is_completed |-> c, priority |-> p] :
        c \in BOOLEAN, p \in Priorities}

\* the rows are inserted in the order of their ids, each at the time of the
\* one before it or one tick later
ListTimes(n) ==
    {f \in [1..n -> {i * TickSeconds : i \in 0..(MaxRows - 1)}] :
        /\ (n > 0 => f[1] = 0)
        /\ \A i \in 1..(n - 1) : f[i + 1] \in {f[i], f[i] + TickSeconds}}

ListStores ==
    UNION {[1..n -> ListInputs] \X ListTimes(n) : n \in 0..MaxRows}

ListInit ==
    /\ tasks = NoTasks
    /\ \E s \in ListStores :
          /\ store = [id \in DOMAIN s[1] |-> NewRow(s[1][id], id, s[2][id])]
          /\ nextId = Len(s[1]) + 1
    /\ cache = [x \in {} |-> [value |-> json_dumps(to_dict(NullRow)), expires_at |-> 0]]
    /\ redis_client = "None"
    /\ now = (MaxRows - 1) * TickSeconds
    /\ last = [op |-> "init", id |-> 0, data |-> EmptyData,
               ret |-> PyNone, exc |-> "none", status |-> 0,
               existed |-> FALSE, pre |-> NullRow, fresh |-> FALSE,
               at |-> 0, err |-> FALSE, list |-> NoList]

ListNext == list_todos

ListSpec == ListInit /\ [][ListNext]_vars

(***************************************************************************)
(* get_priority_order called on its own, with strings of up to MaxLen      *)
(* characters and with the keys of PRIORITY_ORDER.                         *)
(***************************************************************************)
\* length of the strings
MaxLen == 3

PriorityChars == {"h", "i", "g", "l", "o", "w"}

PriorityArgs ==
    DOMAIN PRIORITY_ORDER \cup UNION {[1..n -> PriorityChars] : n \in 0..MaxLen}

PriorityInit == Init

GetPriorityOrder ==
    \E priority \in PriorityArgs :
        /\ last' = [last EXCEPT !.op = "get_priority_order",
                                !.data = [priority |-> priority],
                                !.ret = PyInt(get_priority_order(priority))]
        /\ UNCHANGED <<tasks, store, nextId, cache, redis_client, now>>

PriorityNext == GetPriorityOrder

PrioritySpec == PriorityInit /\ [][PriorityNext]_vars

(***************************************************************************)
(* Two requests on the same id running concurrently.  A request gives up   *)
(* control at each await of a cache or store call, so each such call is a  *)
(* step: the three awaits of get_by_id (cache read, SELECT, cache write),  *)
(* the commit of a mutation and its clear_cache.  Each request has its own *)
(* session; the store applies each statement atomically.                   *)
(***************************************************************************)
\* number of concurrent requests
MaxTasks == 2

TaskIds == 1..MaxTasks

\* the id both requests name
ConcId == 1

\* the body of a concurrent update
ConcUpdateData == [title |-> "b"]

ConcOps == {"get", "update", "update_status", "delete", "toggle"}

\* a request at its first await; a toggle starts in the service, which calls
\* get_by_id before update_status does
NewTask(op, arg) ==
    [op |-> op, pc |-> "cache_get",
     stage |-> IF op = "toggle" THEN "service" ELSE "repository",
     arg |-> arg, todo |-> PyNone, ret |-> PyNone, exc |-> "none"]

Done(tk, ret, exc) == [tk EXCEPT !.pc = "done", !.ret = ret, !.exc = exc]

\* what follows the return of get_by_id with value x in the operation of tk
AfterGetById(tk, x) ==
    CASE tk.op = "get" -> Done(tk, x, "none")
      [] tk.op = "toggle" /\ tk.stage = "service" ->
            IF ~Truthy(x) THEN Done(tk, PyNone, "none")
            ELSE IF x.shape = "dict" THEN Done(tk, PyNone, "AttributeError")
            ELSE [tk EXCEPT !.stage = "repository", !.pc = "cache_get",
                            !.arg = Negate(x.v.is_completed)]
      [] tk.op = "delete" ->
            IF ~Truthy(x) THEN Done(tk, PyBool(FALSE), "none")
            ELSE IF x.shape = "dict" THEN Done(tk, PyNone, "UnmappedInstanceError")
            ELSE [tk EXCEPT !.pc = "commit", !.todo = x]
      [] tk.op = "update" ->
            IF ~Truthy(x) THEN Done(tk, PyNone, "none")
            ELSE IF UpdateData(x, ConcUpdateData) = {} THEN Done(tk, x, "none")
            ELSE [tk EXCEPT !.pc = "commit", !.todo = x]
      [] OTHER -> \* update_status, called directly or by the toggle
            IF ~Truthy(x) THEN Done(tk, PyNone, "none")
            ELSE IF x.shape = "dict" THEN Done(tk, PyNone, "AttributeError")
            ELSE [tk EXCEPT !.pc = "commit", !.todo = x]

ConcInit ==
    /\ \E todo_data \in CreateInputs :
          store = Put(EmptyMap, ConcId, NewRow(todo_data, ConcId, 0))
    /\ nextId = ConcId + 1
    /\ cache = [x \in {} |-> [value |-> json_dumps(to_dict(NullRow)), expires_at |-> 0]]
    /\ redis_client \in {"None", "client"}
    /\ now = TickSeconds
    /\ last = [op |-> "init", id |-> ConcId, data |-> EmptyData,
               ret |-> PyNone, exc |-> "none", status |-> 0,
               existed |-> TRUE, pre |-> store[ConcId], fresh |-> FALSE,
               at |-> 0, err |-> FALSE, list |-> NoList]
    /\ \E ops \in [TaskIds -> ConcOps], args \in [TaskIds -> BOOLEAN] :
          tasks = [t \in TaskIds |->
                      NewTask(ops[t], IF ops[t] = "update_status" THEN args[t] ELSE FALSE)]

\* get_by_id line 57: cached = await get(cache_key, prefix="todo")
TaskCacheGet(t) ==
    /\ tasks[t].pc = "cache_get"
    /\ LET cached == get(cache, cache_key(ConcId), TodoPrefix, Up(TRUE))
       IN tasks' = [tasks EXCEPT ![t] =
                       IF cached.shape # "none" THEN AfterGetById(@, cached)
                       ELSE [@ EXCEPT !.pc = "select"]]
    /\ UNCHANGED <<store, nextId, cache, redis_client, now, last>>

\* get_by_id lines 65-66: the SELECT by primary key
TaskSelect(t) ==
    /\ tasks[t].pc = "select"
    /\ tasks' = [tasks EXCEPT ![t] =
                    IF ConcId \in DOMAIN store
                    THEN [@ EXCEPT !.pc = "cache_set", !.todo = Entity(store[ConcId])]
                    ELSE AfterGetById(@, PyNone)]
    /\ UNCHANGED <<store, nextId, cache, redis_client, now, last>>

\* get_by_id lines 68-70: await set(cache_key, todo.to_dict(), ttl=300)
TaskCacheSet(t) ==
    /\ tasks[t].pc = "cache_set"
    /\ cache' = set(cache, cache_key(ConcId), to_dict(tasks[t].todo.v), TodoPrefix,
                    CacheTTL, Up(TRUE), now)
    /\ tasks' = [tasks EXCEPT ![t] = AfterGetById(@, @.todo)]
    /\ UNCHANGED <<store, nextId, redis_client, now, last>>

\* the commit of a mutation: the UPDATE or DELETE of the row by its primary
\* key (an UPDATE that finds no row raises StaleDataError; update has
\* changed no attribute, so its commit writes nothing)
TaskCommit(t) ==
    /\ tasks[t].pc = "commit"
    /\ LET tk == tasks[t]
           gone == ConcId \notin DOMAIN store
       IN CASE tk.op = "delete" ->
                 /\ store' = Remove(store, ConcId)
                 /\ tasks' = [tasks EXCEPT ![t] = [@ EXCEPT !.pc = "clear", !.ret = PyBool(TRUE)]]
            [] tk.op = "update" ->
                 /\ store' = store
                 /\ tasks' = [tasks EXCEPT ![t] =
                                 [@ EXCEPT !.pc = "clear",
                                           !.ret = Entity(ApplyUpdate(
                                                       AssignedInLoop(tk.todo.v, ConcUpdateData),
                                                       now))]]
            [] OTHER ->
                 IF gone
                 THEN /\ store' = store
                      /\ tasks' = [tasks EXCEPT ![t] = Done(@, PyNone, "StaleDataError")]
                 ELSE /\ store' = Put(store, ConcId, SetStatus(store[ConcId], tk.arg, now))
                      /\ tasks' = [tasks EXCEPT ![t] =
                                      [@ EXCEPT !.pc = "clear",
                                                !.ret = Entity(SetStatus(store[ConcId], tk.arg, now))]]
    /\ UNCHANGED <<nextId, cache, redis_client, now, last>>

\* await self.clear_cache(), then the operation returns
TaskClear(t) ==
    /\ tasks[t].pc = "clear"
    /\ cache' = clear_cache(cache, Up(TRUE))
    /\ tasks' = [tasks EXCEPT ![t] = [@ EXCEPT !.pc = "done"]]
    /\ UNCHANGED <<store, nextId, redis_client, now, last>>

ConcNext ==
    \E t \in TaskIds :
        \/ TaskCacheGet(t)
        \/ TaskSelect(t)
        \/ TaskCacheSet(t)
        \/ TaskCommit(t)
        \/ TaskClear(t)

ConcSpec == ConcInit /\ [][ConcNext]_vars

(***************************************************************************)
(* The repository used directly.  TodoRepository(session, cache_enabled)   *)
(* takes the flag from its caller; the service passes True, another caller *)
(* may pass False.  The rows come from the repository's create, the cache  *)
(* entries from get_by_id itself.                                          *)
(***************************************************************************)
\* TodoRepository.create
TodoRepository_create ==
    /\ nextId <= MaxTodos
    /\ \E todo_data \in CreateInputs, reach \in BOOLEAN :
          LET r == create(store, cache, todo_data, nextId, Up(reach), now)
          IN /\ store' = r.store
             /\ cache' = r.cache
             /\ nextId' = nextId + 1
             /\ last' = Last("repo_create", nextId, todo_data, r, 0, NoList)
             /\ UNCHANGED <<tasks, redis_client, now>>

\* TodoRepository(session, cache_enabled).get_by_id(id)
TodoRepository_get_by_id ==
    \E id \in Ids, cache_enabled \in BOOLEAN, reach \in BOOLEAN :
        LET g == get_by_id(store, cache, id, cache_enabled, Up(reach), Up(reach), now)
            r == [ret |-> g.ret, exc |-> "none", err |-> g.err]
        IN /\ cache' = g.cache
           /\ last' = Last(IF cache_enabled THEN "repo_get" ELSE "repo_get_uncached",
                           id, EmptyData, r, 0, NoList)
           /\ UNCHANGED <<tasks, store, nextId, redis_client, now>>

RepositoryNext ==
    \/ get_redis
    \/ close_redis
    \/ TodoRepository_create
    \/ TodoRepository_get_by_id

RepositorySpec == Init /\ [][RepositoryNext]_vars

(***************************************************************************)
(* The requests of the API together with list requests for the first page. *)
(***************************************************************************)
\* GET /todos with the default page, sort and order
FirstPage ==
    \E is_completed \in CompletedFilters :
        ListRequest(1, MaxPageSize, "created_at", "desc", is_completed, NullStr)

FrameNext ==
    \/ get_redis
    \/ close_redis
    \/ get_todo
    \/ create_todo
    \/ update_todo
    \/ delete_todo
    \/ toggle_todo_completion
    \/ FirstPage

FrameSpec == Init /\ [][FrameNext]_vars

(***************************************************************************)
(* Properties.                                                             *)
(***************************************************************************)
\* the operations of the repository a request reaches without a step of the
\* service in between
RepoOps == {"get", "create", "update", "delete", "update_status"}

\* the request returned a todo (mapped entity or cached dict)
ReturnedTodo(l) == l.exc = "none" /\ l.ret.shape \in {"entity", "dict"}

\* C1: an update of an existing id that names at least one field returns an
\* entity whose named fields have the requested values, and the row read
\* afterwards has them too.
C1_UpdateApplied ==
    (last.op = "update" /\ last.existed /\ DOMAIN last.data # {}
     /\ TodoUpdate(last.data)) =>
        /\ ReturnedTodo(last)
        /\ \A k \in DOMAIN last.data : last.ret.v[k] = last.data[k]
        /\ last.id \in DOMAIN store
        /\ \A k \in DOMAIN last.data : store[last.id][k] = last.data[k]

\* C2: after an update of an existing todo every field of title,
\* description, is_completed and priority that the request does not name has
\* the value it had before, in the row and in the entity returned from the
\* store.
C2_OmittedFieldsUnchanged ==
    (last.op = "update" /\ last.existed) =>
        /\ last.id \in DOMAIN store
        /\ \A k \in UpdateFields \ DOMAIN last.data :
              /\ store[last.id][k] = last.pre[k]
              /\ (last.ret.shape = "entity" => last.ret.v[k] = last.pre[k])

\* C2 witness: an update that names some but not all fields went through the
\* store path on an existing row.
C2_Witness ==
    /\ last.op = "update" /\ last.existed
    /\ DOMAIN last.data # {} /\ UpdateFields \ DOMAIN last.data # {}
    /\ last.ret.shape = "entity"

C5_ToggleNegates ==
    (last.op = "toggle" /\ last.existed) =>
        /\ last.exc = "none"
        /\ last.ret.shape = "entity"
        /\ last.ret.v.is_completed = ~last.pre.is_completed

\* C6: delete of an id present in the store returns true and removes the
\* row, whatever came before.
C6_DeleteRemoves ==
    (last.op = "delete" /\ last.existed) =>
        /\ last.ret = PyBool(TRUE)
        /\ last.id \notin DOMAIN store

Reference(l) ==
    LET st0 == IF l.existed THEN Put(EmptyMap, l.id, l.pre) ELSE EmptyMap
        c0 == [x \in {} |-> [value |-> json_dumps(to_dict(NullRow)), expires_at |-> 0]]
    IN CASE l.op = "get" -> TodoService_get_todo(st0, c0, l.id, TRUE, TRUE, l.at)
         [] l.op = "create" -> create(st0, c0, l.data, l.id, TRUE, l.at)
         [] l.op = "update" -> update(st0, c0, l.id, l.data, TRUE, TRUE, TRUE, l.at)
         [] l.op = "delete" -> delete(st0, c0, l.id, TRUE, TRUE, TRUE, l.at)
         [] l.op = "update_status" ->
                update_status(st0, c0, l.id, l.data.is_completed, TRUE, TRUE, TRUE, l.at)

C10_TotalIsMatching ==
    last.op = "list" => last.list.total = Cardinality(last.list.matching)

\* the ids of the items of a list response
PageIds(l) == {l.items[i].id : i \in 1..Len(l.items)}

\* two list requests with the same page size, filters and sort
SameQuery(a, b) ==
    /\ a.page_size = b.page_size
    /\ a.sort_by = b.sort_by /\ a.order = b.order
    /\ a.is_completed = b.is_completed /\ a.priority = b.priority

Max(a, b) == IF a >= b THEN a ELSE b

\* C11: over an unchanged store, two list requests that differ only in the
\* page return disjoint items, and a page p holds
\* min(page_size, max(0, total - (p - 1) * page_size)) items (pairwise
\* disjoint pages of these sizes cover every matching row exactly once).
C11_PagesPartition ==
    [][(/\ last.op = "list" /\ last'.op = "list"
        /\ SameQuery(last.list, last'.list)
        /\ last.list.page # last'.list.page) =>
          /\ PageIds(last.list) \cap PageIds(last'.list) = {}
          /\ Len(last'.list.items) =
                Min(last'.list.page_size,
                    Max(0, last'.list.total
                           - (last'.list.page - 1) * last'.list.page_size))]_vars

\* C12: every list request is answered (200) with the page and page size it
\* asked for, has_next = (page * page_size < total) and
\* has_previous = (page > 1).
C12_ListResponse ==
    last.op = "list" =>
        /\ last.status = 200
        /\ last.list.page \in 1..MaxPage /\ last.list.page_size \in 1..MaxPageSize
        /\ last.list.has_next = (last.list.page * last.list.page_size < last.list.total)
        /\ last.list.has_previous = (last.list.page > 1)

\* C13: a create whose priority is not low, medium or high is answered 422
\* and leaves the store and the cache as they were; a create with a valid
\* body is answered 201 and returns the priority it asked for (medium when
\* it names none).
C13_CreateValidation ==
    [][(last' # last /\ last'.op = "create") =>
          IF "priority" \in DOMAIN last'.data /\ last'.data["priority"] \notin Priorities
          THEN /\ last'.status = 422
               /\ store' = store /\ cache' = cache
          ELSE /\ last'.status = 201
               /\ ReturnedTodo(last')
               /\ last'.ret.v.priority = Field(last'.data, "priority", "medium")]_vars

\* C14: a request with a valid body is answered 201 for create, 404 for
\* get, update, delete and toggle of a missing id, 200 for get, update and
\* toggle of an existing id and 204 for delete of an existing id; never 500.
C14_StatusCodes ==
    (last.op \in {"get", "create", "update", "delete", "toggle"} /\ last.status # 422) =>
        last.status = (CASE last.op = "create" -> 201
                         [] ~last.existed -> 404
                         [] last.op = "delete" -> 204
                         [] OTHER -> 200)

\* C15: the priority of every stored todo is one of low, medium, high.
C15_PriorityValid ==
    \A id \in DOMAIN store : store[id].priority \in Priorities

\* C15 witness: a request with a priority outside the three values was sent
\* while the store held a row created with a priority and one created with
\* the default.
C15_Witness ==
    /\ last.op \in {"create", "update"}
    /\ "priority" \in DOMAIN last.data /\ last.data["priority"] \notin Priorities
    /\ \E i, j \in DOMAIN store : store[i].priority = "high" /\ store[j].priority = "medium"

\* C16: get_priority_order returns 3 for high, 2 for medium, 1 for low and
\* 1 for every other string.
C16_PriorityOrder ==
    last.op = "get_priority_order" =>
        last.ret = PyInt(CASE last.data.priority = <<"h", "i", "g", "h">> -> 3
                           [] last.data.priority = <<"m", "e", "d", "i", "u", "m">> -> 2
                           [] last.data.priority = <<"l", "o", "w">> -> 1
                           [] OTHER -> 1)

\* C16 witness: get_priority_order was called with a string that is not a
\* key of PRIORITY_ORDER and not empty.
C16_Witness ==
    /\ last.op = "get_priority_order"
    /\ last.data.priority \notin DOMAIN PRIORITY_ORDER
    /\ Len(last.data.priority) = 3

\* the row satisfies the filters of list request l; an absent filter is
\* satisfied by every row
Satisfies(row, l) ==
    /\ (l.is_completed # <<>> => row.is_completed = l.is_completed[1])
    /\ (l.priority # NullStr => row.priority = l.priority)

\* C17: every item of a list response is a stored row that satisfies the
\* is_completed and priority filters of the request (an absent filter
\* restricts nothing); the page holds as many items as the rows satisfying
\* the filters give at its offset, and the total counts each of these rows.
C17_Filters ==
    last.op = "list" =>
        LET l == last.list
            sat == {id \in DOMAIN store : Satisfies(store[id], l)}
        IN /\ \A i \in 1..Len(l.items) :
                 /\ l.items[i].id \in DOMAIN store
                 /\ l.items[i] = store[l.items[i].id]
                 /\ Satisfies(l.items[i], l)
           /\ Len(l.items) =
                 Min(l.page_size, Max(0, Cardinality(sat) - (l.page - 1) * l.page_size))
           /\ l.total >= Cardinality(sat)

\* C17 witness: a list request with both filters returned an item while the
\* store held a row that the filters exclude.
C17_Witness ==
    /\ last.op = "list"
    /\ last.list.is_completed = <<FALSE>> /\ last.list.priority = "high"
    /\ Len(last.list.items) = 1
    /\ \E id \in DOMAIN store : ~Satisfies(store[id], last.list)

\* the ids the sequence of todos.id has handed out
Assigned == 1..(nextId - 1)

\* C18: every stored row carries the id it is stored under (no two rows share
\* an id), no step changes the id of a row, and the id a create returns was
\* never handed out before, not even to a row deleted since.
C18_IdsUniqueImmutable ==
    [][/\ \A id \in DOMAIN store' : store'[id].id = id
       /\ \A id \in DOMAIN store \cap DOMAIN store' : store'[id].id = store[id].id
       /\ (last' # last /\ last'.op = "create" /\ ReturnedTodo(last')) =>
             /\ last'.ret.v.id \notin Assigned
             /\ last'.ret.v.id \notin DOMAIN store
             /\ last'.ret.v.id \in DOMAIN store'
       /\ (last' # last /\ last'.op \in {"update", "update_status", "toggle"}
           /\ last'.ret.shape = "entity") =>
             last'.ret.v.id = last'.id]_vars

\* C18 witness: a create returned an id while a lower id, handed out
\* before, belongs to a row deleted since.
C18_Witness ==
    /\ last.op = "create" /\ ReturnedTodo(last)
    /\ \E id \in Assigned : id < last.ret.v.id /\ id \notin DOMAIN store

C20_UpdateStatusFrame ==
    [][(last' # last /\ last'.op = "update_status" /\ last'.existed) =>
          /\ last'.exc = "none"
          /\ DOMAIN store' = DOMAIN store
          /\ store'[last'.id] = [store[last'.id] EXCEPT
                                    !.is_completed = last'.data.is_completed,
                                    !.updated_at = last'.at]
          /\ \A id \in DOMAIN store \ {last'.id} : store'[id] = store[id]]_vars

\* the strings of the priority column in their order
PriorityRank(p) == CASE p = "high" -> 1 [] p = "low" -> 2 [] p = "medium" -> 3 [] OTHER -> 0

\* the column a list request is expected to order by, and the direction
ExpectedColumn(l) ==
    IF l.sort_by \in {"created_at", "updated_at", "priority"} THEN l.sort_by ELSE "created_at"

ExpectedAscending(l) ==
    l.sort_by \in {"created_at", "updated_at", "priority"} /\ l.order = "asc"

ExpectedKey(row, l) ==
    IF ExpectedColumn(l) = "priority" THEN PriorityRank(row.priority)
    ELSE row[ExpectedColumn(l)]

\* row a comes strictly before row b in the expected order of request l
Before(a, b, l) ==
    IF ExpectedAscending(l) THEN ExpectedKey(a, l) < ExpectedKey(b, l)
    ELSE ExpectedKey(a, l) > ExpectedKey(b, l)

C22_RowsTransferred ==
    last.op = "list" => last.list.fetched <= last.list.page_size

\* the Redis key under which get_by_id keeps the todo of an id
EntryKey(id) == get_key(cache_key(id), TodoPrefix)

\* every cache entry of a todo id holds the current row of that id
CacheMatchesStore(st, c) ==
    \A id \in Ids :
        EntryKey(id) \in DOMAIN c =>
            /\ id \in DOMAIN st
            /\ json_loads(c[EntryKey(id)].value) = to_dict(st[id])

\* C23: with requests one at a time, a request whose cache calls all reach
\* Redis keeps every cache entry of a todo id equal to the current row of
\* the id (no entry for a deleted id, none with outdated fields); so does
\* the passing of time.
C23_NoStaleEntries ==
    [][(CacheMatchesStore(store, cache) /\ ~(last' # last /\ last'.err)) =>
          CacheMatchesStore(store', cache')]_vars

\* C23 witness: the cache holds the entry of a row that was changed after
\* its creation, and the last request reached Redis.
C23_Witness ==
    /\ last.op = "get" /\ ~last.err
    /\ \E id \in DOMAIN store :
          /\ EntryKey(id) \in DOMAIN cache
          /\ store[id].updated_at > store[id].created_at
    /\ CacheMatchesStore(store, cache)

\* both concurrent requests have returned or raised
AllDone == tasks # NoTasks /\ \A t \in DOMAIN tasks : tasks[t].pc = "done"

C26_CacheDisabled ==
    [][last'.op = "repo_get_uncached" =>
          /\ cache' = cache
          /\ last'.ret = IF last'.id \in DOMAIN store
                         THEN Entity(store[last'.id]) ELSE PyNone]_vars

\* C27: a create, update, toggle or delete request that ends in an unhandled
\* failure (status 500) leaves the store as it was before the request.
C27_FailedRequestRolledBack ==
    [][(/\ last' # last
        /\ last'.op \in {"create", "update", "toggle", "delete"}
        /\ last'.status >= 500) => store' = store]_vars

C29_MissingIdAndReadsFrame ==
    [][(redis_client' = redis_client /\ now' = now) =>
          /\ (last'.op \in {"update", "delete", "toggle"} /\ last'.id \notin DOMAIN store) =>
                 (store' = store /\ cache' = cache)
          /\ last'.op \in {"get", "list"} => store' = store]_vars

\* a delete of an id the store does not hold while the cache still holds an
\* entry for it
C29_Witness ==
    /\ last.op = "delete"
    /\ ~last.existed
    /\ last.id \notin DOMAIN store
    /\ EntryKey(last.id) \in DOMAIN cache

====
